---- MODULE Spec2Model ----
(***************************************************************************)
(* daisy: a static site generator (src/daisy.py).                          *)
(*                                                                         *)
(* Text is modelled as a sequence of one-character strings, so that the    *)
(* substring test, the slice-and-splice of insert_string and the           *)
(* lexicographic comparison of dates are computed as Python computes them. *)
(* Python's None is the value None below; str(None) is "None".             *)
(***************************************************************************)
EXTENDS Integers, Sequences, FiniteSets, TLC

VARIABLES
    index,      \* text of the index file CONFIG["index_file"] on disk
    op,         \* the operation that ran last
    arg,        \* the list of posts it was given (in the order given)
    pre,        \* text of the index file when that operation started
    err,        \* how that operation ended: "ok" or the exception raised
    files,      \* paths of the source documents on disk, besides the index file
    docs,       \* metadata of each of them: [title, date], None when absent
    ignored,    \* CONFIG["ignored_files"]
    name,       \* the file name the last single build was asked for
    loaded,     \* paths the operation built a Post from
    written,    \* output pages the operation wrote, with the template used
    signal,     \* messages the operation printed
    output,     \* paths of the pages in the output directory
    pc,         \* where an index operation run statement by statement stands
    readData,   \* its local `data`: the text read from the index file
    buf,        \* text written to the file object and not yet on disk
    todo        \* the sorted posts whose entries are still to be written

indexVars == <<index, op, arg, pre, err>>
siteVars == <<files, docs, ignored>>
buildVars == <<name, loaded, written, signal, output>>
stepVars == <<pc, readData, buf, todo>>
vars == <<index, op, arg, pre, err, files, docs, ignored,
          name, loaded, written, signal, output, pc, readData, buf, todo>>

----------------------------------------------------------------------------
(* Text helpers *)

\* Code points of the characters the model uses (Python compares str by them).
Ord(c) ==
    CASE c = "\n" -> 10  [] c = " " -> 32   [] c = "(" -> 40   [] c = ")" -> 41
      [] c = "-" -> 45   [] c = "." -> 46   [] c = "/" -> 47
      [] c = "0" -> 48   [] c = "1" -> 49   [] c = "2" -> 50   [] c = "3" -> 51
      [] c = "4" -> 52   [] c = "5" -> 53   [] c = "6" -> 54   [] c = "7" -> 55
      [] c = "8" -> 56   [] c = "9" -> 57   [] c = ":" -> 58
      [] c = "A" -> 65   [] c = "B" -> 66   [] c = "I" -> 73   [] c = "N" -> 78
      [] c = "[" -> 91   [] c = "]" -> 93
      [] c = "a" -> 97   [] c = "b" -> 98   [] c = "d" -> 100  [] c = "e" -> 101
      [] c = "g" -> 103  [] c = "h" -> 104  [] c = "i" -> 105  [] c = "l" -> 108
      [] c = "m" -> 109  [] c = "n" -> 110  [] c = "o" -> 111  [] c = "t" -> 116
      [] c = "x" -> 120

\* Python's s < t on str: lexicographic by code point, a proper prefix is less.
RECURSIVE StrLess(_, _)
StrLess(s, t) ==
    IF t = <<>> THEN FALSE
    ELSE IF s = <<>> THEN TRUE
    ELSE IF Ord(Head(s)) # Ord(Head(t)) THEN Ord(Head(s)) < Ord(Head(t))
    ELSE StrLess(Tail(s), Tail(t))

\* Python's slice s[:i] for i >= 0.
Take(s, i) == SubSeq(s, 1, IF i < Len(s) THEN i ELSE Len(s))

\* Python's slice s[i:] for i >= 0.
Drop(s, i) == SubSeq(s, (IF i < Len(s) THEN i ELSE Len(s)) + 1, Len(s))

\* Python's s[:-n] for n > 0.
DropLast(s, n) == SubSeq(s, 1, IF Len(s) > n THEN Len(s) - n ELSE 0)

\* Python's `sub in data` on str.
Contains(data, sub) ==
    \E i \in 0..(Len(data) - Len(sub)) : SubSeq(data, i + 1, i + Len(sub)) = sub

----------------------------------------------------------------------------
(* Globals and configuration *)

None == <<"<None>">>

INDEX_HEADER ==
    <<"t", "i", "t", "l", "e", ":", " ", "I", "n", "d", "e", "x", "\n", "\n">>

\* INDEX_POST_ENTRY.format(title, link, date); str.format renders None as "None".
Str(v) == IF v = None THEN <<"N", "o", "n", "e">> ELSE v

INDEX_POST_ENTRY(title, link, date) ==
    <<"[">> \o Str(title) \o <<"]", "(">> \o Str(link) \o <<")", " ", "(">>
        \o Str(date) \o <<")", "\n", "\n">>

\* The configuration the site is run with (read by read_config_file).
SEP == <<"/">>
DIR_BLOG == <<"b", "l", "o", "g">>
EXT_MD == <<".", "m", "d">>
EXT_HTML == <<".", "h", "t", "m", "l">>
INDEX_FILE == <<"i", "n", "d", "e", "x", ".", "m", "d">>
DIR_OUTPUT == <<"o", "u", "t", "p", "u", "t">>

----------------------------------------------------------------------------
(* Index maintenance *)

\* Mutant: the inserted text lands at the end of the parent string.
insert_string_append(string, string_to_insert, i) ==
    string \o string_to_insert

insert_string(string, string_to_insert, i) ==
    Take(string, i) \o string_to_insert \o Drop(string, i)

\* The entry a post gets in the index file.
PostEntry(post) ==
    INDEX_POST_ENTRY(post.title, post.filename \o EXT_HTML, post.date)

\* Mutant: the presence test looks for the source file name, which no entry
\* holds.
AddToIndexFileData_md(data, post) ==
    IF ~Contains(data, post.filename \o EXT_MD)
    THEN Take(data, Len(INDEX_HEADER)) \o PostEntry(post)
             \o Drop(data, Len(INDEX_HEADER))
    ELSE data

\* Mutant: the presence test is missing.
AddToIndexFileData_nocheck(data, post) ==
    Take(data, Len(INDEX_HEADER)) \o PostEntry(post)
        \o Drop(data, Len(INDEX_HEADER))

\* add_to_index_file: the text the index file holds afterwards, given the
\* text `data` it held before.
AddToIndexFileData(data, post) ==
    IF ~Contains(data, post.filename)
    THEN insert_string(data, PostEntry(post), Len(INDEX_HEADER))
    ELSE data

\* list.sort(key=lambda post: post.date, reverse=True) raises TypeError as
\* soon as it compares a None key; it compares nothing on fewer than two
\* elements and every element at least once otherwise.
SortRaises(posts) ==
    Len(posts) >= 2 /\ \E i \in 1..Len(posts) : posts[i].date = None

\* Insert x into the date-descending list s behind every element whose date
\* is not less than x's: equal dates keep their input order (the sort is
\* stable, also under reverse=True).
RECURSIVE InsertByDate(_, _)
InsertByDate(s, x) ==
    IF s = <<>> THEN <<x>>
    ELSE IF StrLess(Head(s).date, x.date) THEN <<x>> \o s
    ELSE <<Head(s)>> \o InsertByDate(Tail(s), x)

\* Mutant: the sort is missing.
SortByDateDesc_unsorted(posts) == posts

RECURSIVE SortByDateDesc(_)
SortByDateDesc(posts) ==
    IF Len(posts) <= 1 THEN posts
    ELSE InsertByDate(SortByDateDesc(SubSeq(posts, 1, Len(posts) - 1)),
                      posts[Len(posts)])

RECURSIVE WriteEntries(_)
WriteEntries(posts) ==
    IF posts = <<>> THEN <<>>
    ELSE PostEntry(Head(posts)) \o WriteEntries(Tail(posts))

\* Mutant: the file is opened for appending.
GenerateIndexFileData_append(data, posts) ==
    data \o INDEX_HEADER \o WriteEntries(SortByDateDesc(posts))

\* generate_index_file, once the sort has returned: open(..., "w") empties
\* the file, then the header and one entry per post are written.
GenerateIndexFileData(data, posts) ==
    INDEX_HEADER \o WriteEntries(SortByDateDesc(posts))

\* generate_index_file as a whole: the sort runs before the file is opened,
\* so a TypeError leaves the file as it was.
GenerateIndexFile(data, posts) ==
    IF SortRaises(posts)
    THEN [data |-> data, err |-> "TypeError"]
    ELSE [data |-> GenerateIndexFileData(data, posts), err |-> "ok"]

----------------------------------------------------------------------------
(* The index maintainer called directly: SpecIndex *)

MaxPosts == 2

D1 == <<"2", "0", "2", "4", "-", "0", "1", "-", "0", "1">>
D2 == <<"2", "0", "2", "4", "-", "0", "6", "-", "0", "1">>

\* Post.filename of the posts blog/a.md, blog/ab.md and blog/b.md.
Slugs ==
    { DIR_BLOG \o SEP \o <<"a">>,
      DIR_BLOG \o SEP \o <<"a", "b">>,
      DIR_BLOG \o SEP \o <<"b">> }

Posts ==
    [filename : Slugs, title : {<<"A">>}, date : {D1, D2, None}]

\* Lists of at most MaxPosts posts with pairwise distinct filenames.
PostLists ==
    UNION { { s \in [1..n -> Posts] :
                \A i, j \in 1..n : i # j => s[i].filename # s[j].filename }
            : n \in 0..MaxPosts }

InitIndex ==
    /\ index = INDEX_HEADER
    /\ op = "init"
    /\ arg = <<>>
    /\ pre = INDEX_HEADER
    /\ err = "ok"
    /\ files = {}
    /\ docs = <<>>
    /\ ignored = {}
    /\ name = <<>>
    /\ loaded = {}
    /\ written = {}
    /\ signal = {}
    /\ output = {}
    /\ pc = "idle"
    /\ readData = <<>>
    /\ buf = <<>>
    /\ todo = <<>>

generate_index_file(posts) ==
    /\ op' = "generate_index_file"
    /\ arg' = posts
    /\ pre' = index
    /\ index' = GenerateIndexFile(index, posts).data
    /\ err' = GenerateIndexFile(index, posts).err
    /\ UNCHANGED <<siteVars, buildVars, stepVars>>

add_to_index_file(post) ==
    /\ op' = "add_to_index_file"
    /\ arg' = <<post>>
    /\ pre' = index
    /\ index' = AddToIndexFileData(index, post)
    /\ err' = "ok"
    /\ UNCHANGED <<siteVars, buildVars, stepVars>>

NextIndex ==
    \/ \E posts \in PostLists : generate_index_file(posts)
    \/ \E post \in Posts : add_to_index_file(post)

SpecIndex == InitIndex /\ [][NextIndex]_vars

----------------------------------------------------------------------------
(* Posts, discovery and the two builds: Spec *)

\* The source documents besides the index file: a.md and b.md, each of which
\* may lie in the blog directory, at the top level, in both or in neither.
Names == { <<"a">> \o EXT_MD, <<"b">> \o EXT_MD }

BlogPath(filename) == DIR_BLOG \o SEP \o filename

\* os.path.exists; the index file is there from the start.
Exists(path) == path \in files \/ path = INDEX_FILE

\* md_reader.Meta of a source document. The index file's metadata block is
\* its header line, "title: Index", when its text `data` starts with it.
Meta(path, data) ==
    IF path = INDEX_FILE
    THEN [title |-> IF Take(data, Len(INDEX_HEADER)) = INDEX_HEADER
                    THEN <<"I", "n", "d", "e", "x">> ELSE None,
          date |-> None]
    ELSE docs[path]

\* Post.__init__ raises KeyError when the document has no title.
PostRaises(path, data) == Meta(path, data).title = None

\* Post.__init__: the filename without its last three characters, the title,
\* and the date, None when the document has none.
Post(path, data) ==
    [filename |-> DropLast(path, 3),
     title |-> Meta(path, data).title,
     date |-> Meta(path, data).date]

\* Post.render_html: the page written, at output/<filename>.html.
Page(post, post_type) ==
    [file |-> DIR_OUTPUT \o SEP \o post.filename \o EXT_HTML, kind |-> post_type]

\* glob.glob("blog/*.md") and glob.glob("*.md"), as sets; glob returns the
\* matches in an order of the file system's choosing.
GlobBlog ==
    { path \in files : Take(path, Len(DIR_BLOG \o SEP)) = DIR_BLOG \o SEP }

GlobTop ==
    { path \in files \cup {INDEX_FILE} : ~Contains(path, SEP) }

Orderings(S) ==
    { s \in [1..Cardinality(S) -> S] :
        \A i, j \in 1..Cardinality(S) : i # j => s[i] # s[j] }

\* get_posts skips the matches that are in the ignore list.
NotIgnored(path) == path \notin ignored

\* get_posts(path): the Posts of the matches that are not ignored, in glob's
\* order; it stops at the first Post that raises.
GetPosts(order, data) ==
    LET paths == SelectSeq(order, NotIgnored)
        bad == { i \in 1..Len(paths) : PostRaises(paths[i], data) }
        stop == IF bad = {} THEN Len(paths)
                ELSE CHOOSE i \in bad : \A j \in bad : i <= j
    IN [posts |-> [i \in 1..Len(paths) |-> Post(paths[i], data)],
        loaded |-> { paths[i] : i \in 1..stop },
        err |-> IF bad = {} THEN "ok" ELSE "KeyError"]

\* The pages render_html writes for a list of posts.
Pages(posts, post_type) ==
    { Page(posts[i], post_type) : i \in 1..Len(posts) }

\* The last part of render_all_posts (lines 319 to 325), entered with the
\* index text `data` and what the build did so far: the top-level documents
\* are loaded, then each is rendered as a meta post.
RenderMetaPosts(metaOrder, data, sofar) ==
    LET meta == GetPosts(metaOrder, data)
    IN [index |-> data,
        arg |-> sofar.arg,
        loaded |-> sofar.loaded \cup meta.loaded,
        written |-> sofar.written \cup
                      (IF meta.err = "ok" THEN Pages(meta.posts, "meta") ELSE {}),
        signal |-> sofar.signal,
        err |-> meta.err]

\* Mutant: an empty blog still has its index file generated.
NoBlogPosts_generate(metaOrder) ==
    RenderMetaPosts(metaOrder, GenerateIndexFile(index, <<>>).data,
        [arg |-> <<>>, loaded |-> {}, written |-> {},
         signal |-> {"No blog posts found"}])

\* render_all_posts when get_posts found no blog post: the message, then
\* the meta posts.
NoBlogPosts(metaOrder) ==
    RenderMetaPosts(metaOrder, index,
        [arg |-> <<>>, loaded |-> {}, written |-> {},
         signal |-> {"No blog posts found"}])

\* render_all_posts, with the orders glob returned the blog documents and
\* the top-level documents in.
RenderAllPosts(blogOrder, metaOrder) ==
    LET blog == GetPosts(blogOrder, index)
        gen == GenerateIndexFile(index, blog.posts)
    IN IF blog.err # "ok"
       THEN \* get_posts raised: nothing was rendered
            [index |-> index, arg |-> <<>>, loaded |-> blog.loaded,
             written |-> {}, signal |-> {}, err |-> blog.err]
       ELSE IF Len(blog.posts) > 0
       THEN IF gen.err # "ok"
            THEN \* the blog pages are written, then the sort raised
                 [index |-> index, arg |-> blog.posts, loaded |-> blog.loaded,
                  written |-> Pages(blog.posts, "blog"),
                  signal |-> {}, err |-> gen.err]
            ELSE RenderMetaPosts(metaOrder, gen.data,
                     [arg |-> blog.posts, loaded |-> blog.loaded,
                      written |-> Pages(blog.posts, "blog"), signal |-> {}])
       ELSE NoBlogPosts(metaOrder)

\* Python's `a or b` on str: a unless it is the empty string.
Or(a, b) == IF a # <<>> THEN a ELSE b

\* The test `(meta_filename or blog_filename) in CONFIG["ignored_files"]`.
IsIgnored(filename) == Or(filename, BlogPath(filename)) \in ignored

\* What an operation that did nothing returns.
Nothing ==
    [index |-> index, arg |-> <<>>, loaded |-> {}, written |-> {},
     signal |-> {}, err |-> "ok"]

\* Mutant: a file found nowhere ends the build quietly.
PostNotFound_quiet(filename) == Nothing

\* render_single_post when the file is in neither place.
PostNotFound(filename) == [Nothing EXCEPT !.err = "FileNotFoundError"]

\* render_single_post of a file found in the blog directory: render it, add
\* it to the index file, then load and render the index file.
RenderBlogPost(blog_filename) ==
    IF PostRaises(blog_filename, index)
    THEN [Nothing EXCEPT !.loaded = {blog_filename}, !.err = "KeyError"]
    ELSE LET blog_post == Post(blog_filename, index)
             data == AddToIndexFileData(index, blog_post)
         IN [index |-> data,
             arg |-> <<blog_post>>,
             loaded |-> {blog_filename, INDEX_FILE},
             written |-> {Page(blog_post, "blog")} \cup
                           (IF PostRaises(INDEX_FILE, data) THEN {}
                            ELSE {Page(Post(INDEX_FILE, data), "meta")}),
             signal |-> {},
             err |-> IF PostRaises(INDEX_FILE, data) THEN "KeyError" ELSE "ok"]

\* render_single_post of a file found at the top level.
RenderMetaPost(meta_filename) ==
    IF PostRaises(meta_filename, index)
    THEN [Nothing EXCEPT !.loaded = {meta_filename}, !.err = "KeyError"]
    ELSE [Nothing EXCEPT !.loaded = {meta_filename},
                         !.written = {Page(Post(meta_filename, index), "meta")}]

\* render_single_post(filename).
RenderSinglePost(filename) ==
    IF IsIgnored(filename)
    THEN [Nothing EXCEPT !.signal = {"ignored, exiting"}, !.err = "SystemExit"]
    ELSE IF Exists(BlogPath(filename)) THEN RenderBlogPost(BlogPath(filename))
    ELSE IF Exists(filename) THEN RenderMetaPost(filename)
    ELSE PostNotFound(filename)

\* What a document may hold: a title and a date, a title only, or no title.
BlogDocs ==
    { [title |-> <<"A">>, date |-> D1], [title |-> <<"A">>, date |-> D2],
      [title |-> <<"A">>, date |-> None], [title |-> None, date |-> D1] }

TopDocs ==
    { [title |-> <<"A">>, date |-> None], [title |-> None, date |-> None] }

AllPaths == Names \cup { BlogPath(n) : n \in Names }

Init ==
    /\ index = INDEX_HEADER
    /\ op = "init"
    /\ arg = <<>>
    /\ pre = INDEX_HEADER
    /\ err = "ok"
    /\ files \in SUBSET AllPaths
    /\ docs \in [files -> BlogDocs \cup TopDocs]
    /\ \A path \in files :
          docs[path] \in (IF path \in Names THEN TopDocs ELSE BlogDocs)
    /\ ignored \in { ig \in SUBSET AllPaths : Cardinality(ig) <= 1 }
    /\ name = <<>>
    /\ loaded = {}
    /\ written = {}
    /\ signal = {}
    /\ output = {}
    /\ pc = "idle"
    /\ readData = <<>>
    /\ buf = <<>>
    /\ todo = <<>>

Outcome(r) ==
    /\ pre' = index
    /\ index' = r.index
    /\ arg' = r.arg
    /\ loaded' = r.loaded
    /\ written' = r.written
    /\ signal' = r.signal
    /\ err' = r.err
    /\ output' = output \cup { w.file : w \in r.written }
    /\ UNCHANGED <<siteVars, stepVars>>

render_all_posts ==
    \E blogOrder \in Orderings(GlobBlog), metaOrder \in Orderings(GlobTop) :
        /\ op' = "render_all_posts"
        /\ name' = <<>>
        /\ Outcome(RenderAllPosts(blogOrder, metaOrder))

render_single_post(filename) ==
    /\ op' = "render_single_post"
    /\ name' = filename
    /\ Outcome(RenderSinglePost(filename))

Next ==
    \/ render_all_posts
    \/ \E filename \in AllPaths \cup {INDEX_FILE} : render_single_post(filename)

Spec == Init /\ [][Next]_vars

----------------------------------------------------------------------------
(* The index operations statement by statement, with crashes: SpecCrash *)

(* The index file is written through a buffered file object: truncate()     *)
(* and open(..., "w") empty the file on disk at once, write() fills the     *)
(* buffer, and the buffer reaches the disk when the with block closes the   *)
(* file (documents here are far smaller than the buffer). A process that    *)
(* is killed loses the buffer.                                              *)

InitCrash == InitIndex

Begin(operation, posts) ==
    /\ pc \in {"idle", "crashed"}
    /\ op' = operation
    /\ arg' = posts
    /\ pre' = index
    /\ err' = "running"
    /\ readData' = <<>>
    /\ buf' = <<>>
    /\ todo' = <<>>
    /\ UNCHANGED <<index, siteVars, buildVars>>

\* add_to_index_file is called; open(..., "r+") leaves the file alone.
AddOpen(post) ==
    /\ Begin("add_to_index_file", <<post>>)
    /\ pc' = "add_read"

\* data = file.read(), then the presence test.
AddRead ==
    /\ pc = "add_read"
    /\ readData' = index
    /\ IF ~Contains(index, arg[1].filename)
       THEN pc' = "add_truncate" /\ err' = err
       ELSE pc' = "idle" /\ err' = "ok"
    /\ UNCHANGED <<index, op, arg, pre, buf, todo, siteVars, buildVars>>

\* file.seek(0); file.truncate()
AddTruncate ==
    /\ pc = "add_truncate"
    /\ index' = <<>>
    /\ pc' = "add_write"
    /\ UNCHANGED <<op, arg, pre, err, readData, buf, todo, siteVars, buildVars>>

\* file.write(new_data)
AddWrite ==
    /\ pc = "add_write"
    /\ buf' = insert_string(readData, PostEntry(arg[1]), Len(INDEX_HEADER))
    /\ pc' = "add_close"
    /\ UNCHANGED <<index, op, arg, pre, err, readData, todo, siteVars, buildVars>>

\* The with block ends: the buffer is flushed and the file closed.
Close ==
    /\ pc \in {"add_close", "gen_close"}
    /\ index' = index \o buf
    /\ buf' = <<>>
    /\ pc' = "idle"
    /\ err' = "ok"
    /\ UNCHANGED <<op, arg, pre, readData, todo, siteVars, buildVars>>

\* generate_index_file is called.
GenBegin(posts) ==
    /\ Begin("generate_index_file", posts)
    /\ pc' = "gen_sort"

\* posts.sort(...)
GenSort ==
    /\ pc = "gen_sort"
    /\ IF SortRaises(arg)
       THEN pc' = "idle" /\ err' = "TypeError" /\ todo' = todo
       ELSE pc' = "gen_open" /\ err' = err /\ todo' = SortByDateDesc(arg)
    /\ UNCHANGED <<index, op, arg, pre, readData, buf, siteVars, buildVars>>

\* open(CONFIG["index_file"], "w") empties the file.
GenOpen ==
    /\ pc = "gen_open"
    /\ index' = <<>>
    /\ pc' = "gen_header"
    /\ UNCHANGED <<op, arg, pre, err, readData, buf, todo, siteVars, buildVars>>

\* file.write(INDEX_HEADER)
GenWriteHeader ==
    /\ pc = "gen_header"
    /\ buf' = buf \o INDEX_HEADER
    /\ pc' = IF todo = <<>> THEN "gen_close" ELSE "gen_entry"
    /\ UNCHANGED <<index, op, arg, pre, err, readData, todo, siteVars, buildVars>>

\* One turn of the loop: file.write(INDEX_POST_ENTRY.format(...))
GenWriteEntry ==
    /\ pc = "gen_entry"
    /\ buf' = buf \o PostEntry(Head(todo))
    /\ todo' = Tail(todo)
    /\ pc' = IF Tail(todo) = <<>> THEN "gen_close" ELSE "gen_entry"
    /\ UNCHANGED <<index, op, arg, pre, err, readData, siteVars, buildVars>>

\* The process is killed while the operation runs: the file stays as it
\* is on disk, whatever the file object buffered is lost.
Crash ==
    /\ pc \notin {"idle", "crashed"}
    /\ pc' = "crashed"
    /\ err' = "killed"
    /\ buf' = <<>>
    /\ UNCHANGED <<index, op, arg, pre, readData, todo, siteVars, buildVars>>

NextCrash ==
    \/ \E post \in Posts : AddOpen(post)
    \/ AddRead
    \/ AddTruncate
    \/ AddWrite
    \/ \E posts \in PostLists : GenBegin(posts)
    \/ GenSort
    \/ GenOpen
    \/ GenWriteHeader
    \/ GenWriteEntry
    \/ Close
    \/ Crash

SpecCrash == InitCrash /\ [][NextCrash]_vars

----------------------------------------------------------------------------
(* Reading the index document *)

\* Positions where an entry's link starts: just behind "](".
LinkStarts(doc) ==
    { i \in 3..Len(doc) : doc[i - 2] = "]" /\ doc[i - 1] = "(" }

\* The link that starts at position i: the text up to the next ")".
LinkAt(doc, i) ==
    LET close == { j \in i..Len(doc) : doc[j] = ")" }
        stop == IF close = {} THEN Len(doc) + 1
                ELSE CHOOSE j \in close : \A k \in close : j <= k
    IN SubSeq(doc, i, stop - 1)

\* The reorderings of a list.
Reorderings(s) ==
    { [i \in 1..Len(s) |-> s[f[i]]] : f \in Permutations(1..Len(s)) }

\* Dates never increase along the list.
DateDescending(s) ==
    \A i \in 1..(Len(s) - 1) : ~StrLess(s[i].date, s[i + 1].date)

DistinctDates(s) ==
    \A i, j \in 1..Len(s) : i # j => s[i].date # s[j].date

----------------------------------------------------------------------------
(* Claims on the index maintainer, checked under SpecIndex *)

\* C1: a second add_to_index_file of the same post changes nothing: applied
\* to the document the first call left, it returns that document.
C1_IdempotentInsertion ==
    op = "add_to_index_file" => AddToIndexFileData(index, arg[1]) = index

\* The first call did insert an entry.
C1_Witness ==
    /\ op = "add_to_index_file"
    /\ index # pre
    /\ Contains(index, PostEntry(arg[1]))

\* C2 as stated: regenerating from any reordering of the same collection ends
\* the same way and leaves the same document, entries by date descending.
C2_AnyOrderSameOutput ==
    op = "generate_index_file" =>
        /\ \A q \in Reorderings(arg) :
              GenerateIndexFile(pre, q) = [data |-> index, err |-> err]
        /\ err = "ok" =>
              \E q \in Reorderings(arg) :
                  DateDescending(q) /\ index = INDEX_HEADER \o WriteEntries(q)

\* C2 amended: for a collection in which no two posts share a date, every
\* reordering ends the same way and leaves the same document; whenever the
\* index is written its entries are by date descending, posts that share a
\* date in the order they were given.
C2_DistinctDatesSameOutput ==
    op = "generate_index_file" =>
        /\ DistinctDates(arg) =>
              \A q \in Reorderings(arg) :
                  GenerateIndexFile(pre, q) = [data |-> index, err |-> err]
        /\ err = "ok" =>
              \E f \in Permutations(1..Len(arg)) :
                  LET q == [i \in 1..Len(arg) |-> arg[f[i]]] IN
                  /\ DateDescending(q)
                  /\ \A i, j \in 1..Len(arg) :
                        (i < j /\ q[i].date = q[j].date) => f[i] < f[j]
                  /\ index = INDEX_HEADER \o WriteEntries(q)

\* Two posts with different dates were given oldest first and written
\* newest first.
C2_Witness ==
    /\ op = "generate_index_file"
    /\ err = "ok"
    /\ Len(arg) = 2
    /\ arg[1].date = D1
    /\ arg[2].date = D2
    /\ index = INDEX_HEADER \o PostEntry(arg[2]) \o PostEntry(arg[1])

\* C3: add_to_index_file of a post whose filename the document does not
\* contain leaves the header, then the post's entry, then everything the
\* document held behind the header, whatever the post's date.
C3_SpliceAfterHeader ==
    (op = "add_to_index_file" /\ ~Contains(pre, arg[1].filename)) =>
        /\ Take(index, Len(INDEX_HEADER)) = INDEX_HEADER
        /\ SubSeq(index, Len(INDEX_HEADER) + 1,
                   Len(INDEX_HEADER) + Len(PostEntry(arg[1]))) = PostEntry(arg[1])
        /\ Drop(index, Len(INDEX_HEADER) + Len(PostEntry(arg[1])))
              = Drop(pre, Len(INDEX_HEADER))
        /\ Len(index) = Len(pre) + Len(PostEntry(arg[1]))

\* An older post was inserted in front of a newer one.
C3_Witness ==
    /\ op = "add_to_index_file"
    /\ ~Contains(pre, arg[1].filename)
    /\ arg[1].date = D1
    /\ \E p \in Posts :
          /\ p.date = D2
          /\ Drop(pre, Len(INDEX_HEADER)) = PostEntry(p)
          /\ index = INDEX_HEADER \o PostEntry(arg[1]) \o PostEntry(p)

\* C4: no two entries of the index document link to the same post.
C4_UniqueSlugs ==
    \A i, j \in LinkStarts(index) :
        i # j => LinkAt(index, i) # LinkAt(index, j)

\* A post whose entry the document already holds was inserted again, next
\* to another entry, and the document stayed as it was.
C4_Witness ==
    /\ op = "add_to_index_file"
    /\ index = pre
    /\ Cardinality(LinkStarts(index)) >= 2
    /\ \E i \in LinkStarts(index) :
          LinkAt(index, i) = arg[1].filename \o EXT_HTML

\* C5: after generate_index_file returns, the document is the header and
\* one entry per post given, nothing else.
C5_FullReplacement ==
    (op = "generate_index_file" /\ err = "ok") =>
        /\ \E q \in Reorderings(arg) : index = INDEX_HEADER \o WriteEntries(q)
        /\ Cardinality(LinkStarts(index)) = Len(arg)
        /\ \A i \in LinkStarts(index) :
              \E k \in 1..Len(arg) :
                  LinkAt(index, i) = arg[k].filename \o EXT_HTML

\* The document held an entry for a post that was not given; it is gone.
C5_Witness ==
    /\ op = "generate_index_file"
    /\ err = "ok"
    /\ Len(arg) >= 1
    /\ \E i \in LinkStarts(pre) :
          /\ \A k \in 1..Len(arg) :
                LinkAt(pre, i) # arg[k].filename \o EXT_HTML
          /\ ~Contains(index, LinkAt(pre, i))

\* C6: an operation given a post without a date returns normally and the
\* document holds an entry for that post (unless add_to_index_file found
\* its filename in the document).
C6_UndatedNeverFails ==
    \A k \in 1..Len(arg) :
        arg[k].date = None =>
            /\ err = "ok"
            /\ (op = "generate_index_file" \/ ~Contains(pre, arg[k].filename))
                  => Contains(index, PostEntry(arg[k]))

----------------------------------------------------------------------------
(* Claims on the builds, checked under Spec *)

\* The blog documents get_posts keeps.
QualifyingBlog == { path \in GlobBlog : path \notin ignored }

\* C7: a single build of a name whose top-level path or whose blog path is
\* in the ignore list exits without error, having loaded and written
\* nothing and with the index file as it was.
C7_IgnoredEitherWaySkipped ==
    (op = "render_single_post"
        /\ (name \in ignored \/ BlogPath(name) \in ignored)) =>
        /\ err = "SystemExit"
        /\ loaded = {}
        /\ written = {}
        /\ index = pre

\* C8 as stated: a full build that finds no qualifying blog document prints
\* the message, writes no page at all and leaves the index file as it was.
C8_EmptyBuildWritesNothing ==
    (op = "render_all_posts" /\ QualifyingBlog = {}) =>
        /\ "No blog posts found" \in signal
        /\ written = {}
        /\ index = pre

\* C8 amended: a full build that finds no qualifying blog document prints
\* the message, loads and renders no blog document and leaves the index
\* file as it was; the top-level documents that are not ignored are still
\* loaded, and rendered as meta posts when all of them load.
C8_EmptyBuildKeepsIndex ==
    (op = "render_all_posts" /\ QualifyingBlog = {}) =>
        /\ "No blog posts found" \in signal
        /\ index = pre
        /\ loaded \subseteq { path \in GlobTop : path \notin ignored }
        /\ \A w \in written : w.kind = "meta"
        /\ err = "ok" =>
              written = { Page(Post(path, index), "meta") :
                            path \in { q \in GlobTop : q \notin ignored } }

\* An empty full build ran on an index that holds an entry, and rendered
\* the top-level documents.
C8_Witness ==
    /\ op = "render_all_posts"
    /\ QualifyingBlog = {}
    /\ "No blog posts found" \in signal
    /\ index # INDEX_HEADER
    /\ Page(Post(INDEX_FILE, index), "meta") \in written

\* C9: a single build of a name that is not ignored and exists in neither
\* place raises FileNotFoundError, having loaded and written nothing and
\* with the index file as it was.
C9_MissingRaises ==
    (op = "render_single_post"
        /\ name \notin ignored
        /\ BlogPath(name) \notin ignored
        /\ ~Exists(BlogPath(name))
        /\ ~Exists(name)) =>
        /\ err = "FileNotFoundError"
        /\ loaded = {}
        /\ written = {}
        /\ index = pre

\* A missing name was asked for while the output directory and the index
\* file held earlier results.
C9_Witness ==
    /\ op = "render_single_post"
    /\ name \in Names
    /\ name \notin ignored
    /\ BlogPath(name) \notin ignored
    /\ ~Exists(BlogPath(name))
    /\ ~Exists(name)
    /\ err = "FileNotFoundError"
    /\ index # INDEX_HEADER
    /\ output # {}

----------------------------------------------------------------------------
(* Claim on crashes, checked under SpecCrash *)

\* The document the interrupted operation was going to leave.
NewDocument ==
    IF op = "add_to_index_file" THEN AddToIndexFileData(pre, arg[1])
    ELSE GenerateIndexFile(pre, arg).data

\* C10: when the process is killed during add_to_index_file or
\* generate_index_file, the index file on disk is the complete old document
\* or the complete new one.
C10_CrashLeavesOldOrNew ==
    pc = "crashed" => (index = pre \/ index = NewDocument)

\* Run to the end, the statements leave what the operation as a whole
\* leaves.
StepsAgree ==
    (pc = "idle" /\ op # "init") =>
        /\ index = NewDocument
        /\ err = (IF op = "add_to_index_file" THEN "ok"
                  ELSE GenerateIndexFile(pre, arg).err)

====
